---- MODULE Spec2Model ----
(***************************************************************************)
(* SyncStock daily rollup: window selection, fetch and filter of the daily *)
(* aggregates, merge, opening balances, roll-forward, and the transactional *)
(* write of ledger, watermark and stock snapshot under an advisory lock.    *)
(* Dates are proleptic Gregorian ordinals (datetime.date.toordinal).        *)
(***************************************************************************)
EXTENDS Integers, Sequences, FiniteSets, TLC

VARIABLES
    today,      \* the server's current_date
    purchases,  \* store_data.vendor_purchases line items joined to catalog items
    sales,      \* store_data.sales_orders line items
    meta,       \* syncstock.meta singleton row
    ledger,     \* syncstock.ledger, keyed by <<order_created_date, inventory_id>>
    stock,      \* syncstock.stock, keyed by inventory_id
    holders,    \* sessions holding the advisory lock 'syncstock-runlock'
    pc,         \* position of each invocation of run_daily_rollup
    user,       \* user_lookback_start of each invocation
    win,        \* <<start, end>> picked by each invocation
    fetched,    \* <<p_rows, s_rows>> returned by fetch_daily
    rows,       \* ledger_rows computed by roll_forward
    outcome,    \* how the invocation ended
    ncommits,   \* number of committed runs
    hist,       \* history of the committed runs: the maximal intervals [from, to) of
                \* the days their windows covered, the window of the latest while the
                \* date and the sources are as it found them, whether any had a
                \* caller-supplied date
    call,       \* a call of one of the pure steps on its own: the function and
                \* its arguments
    ret         \* what that call returned or raised, None while it is pending

vars == <<today, purchases, sales, meta, ledger, stock, holders, pc, user, win,
          fetched, rows, outcome, ncommits, hist, call, ret>>

---------------------------------------------------------------------------
\* Bounds of the model
MaxTick == 2      \* the server date advances at most this many days
MaxRecs == 2      \* source line items recorded in total
MaxCommits == 2   \* committed runs

\* Python None / SQL NULL for optional values; a present value v is <<v>>
None == <<>>
Some(v) == <<v>>

\* datetime.date(y, m, d).toordinal()
IsLeap(y) == (y % 4 = 0) /\ ((y % 100 # 0) \/ (y % 400 = 0))
DaysBeforeYear(y) == LET k == y - 1 IN k * 365 + (k \div 4) - (k \div 100) + (k \div 400)
DaysInMonth(y, m) ==
    IF m = 2 THEN (IF IsLeap(y) THEN 29 ELSE 28)
    ELSE IF m \in {4, 6, 9, 11} THEN 30 ELSE 31
RECURSIVE DaysBeforeMonth(_, _)
DaysBeforeMonth(y, m) == IF m = 1 THEN 0 ELSE DaysBeforeMonth(y, m - 1) + DaysInMonth(y, m - 1)
Ordinal(y, m, d) == DaysBeforeYear(y) + DaysBeforeMonth(y, m) + d

\* The first server date of the model
Day0 == Ordinal(2025, 3, 10)

\* timedelta(days=30) of the first-run lookback
Lookback == 30

\* Invocations: the scheduled run (no payload) and the webhook run (optional date)
Procs == {"sched", "hook"}

\* store_data.inventory_items ids, and identifiers a sales line may carry
Catalog == {"a", "b"}
NullId == "<null>"
PurchIds == {"a"}
SaleIds == {"b", ""}

\* str(inventory_id)
Str(id) == IF id = NullId THEN "None" ELSE id

\* order of Python's sorted() on the identifiers of the model
ItemOrder == <<"", "None", "a", "b", "x">>
Rank(i) == CHOOSE k \in 1..Len(ItemOrder) : ItemOrder[k] = i
RECURSIVE SortIds(_)
SortIds(S) ==
    IF S = {} THEN <<>>
    ELSE LET m == CHOOSE x \in S : \A y \in S : Rank(x) <= Rank(y)
         IN <<m>> \o SortIds(S \ {m})

Range(f) == {f[k] : k \in DOMAIN f}
EmptyFn == [k \in {} |-> 0]

---------------------------------------------------------------------------
\* query.py: the daily aggregates

\* SUM(...) over a set of optional quantities given as a set of lines: NULL when
\* no line has a quantity
RECURSIVE SumLines(_)
SumLines(L) ==
    IF L = {} THEN None
    ELSE LET l == CHOOSE x \in L : TRUE
             rest == SumLines(L \ {l})
         IN IF l.qty = None THEN rest
            ELSE IF rest = None THEN l.qty
            ELSE Some(l.qty[1] + rest[1])

\* ORDER BY 1,2 over the grouped keys
RECURSIVE OrderKeys(_)
OrderKeys(K) ==
    IF K = {} THEN <<>>
    ELSE LET m == CHOOSE x \in K : \A y \in K :
                      x[1] < y[1] \/ (x[1] = y[1] /\ Rank(Str(x[2])) <= Rank(Str(y[2])))
         IN <<m>> \o OrderKeys(K \ {m})

GroupKeys(lines, start, end) ==
    OrderKeys({<<l.day, l.item>> : l \in {x \in lines : x.day >= start /\ x.day < end}})

sql_daily_purchases(lines, start, end) ==
    LET ks == GroupKeys(lines, start, end)
    IN [k \in DOMAIN ks |->
          [day |-> ks[k][1], inventory_id |-> ks[k][2],
           purchased_qty |-> SumLines({l \in lines : l.day = ks[k][1] /\ l.item = ks[k][2]})]]

\* a refunded line counts negative
Signed(l) == IF l.qty = None THEN l
             ELSE [l EXCEPT !.qty = Some((IF l.refunded THEN -1 ELSE 1) * l.qty[1])]

sql_daily_sales(lines, start, end) ==
    LET ks == GroupKeys(lines, start, end)
    IN [k \in DOMAIN ks |->
          [day |-> ks[k][1], inventory_id |-> ks[k][2],
           sold_qty |-> SumLines({Signed(l) : l \in {x \in lines : x.day = ks[k][1] /\ x.item = ks[k][2]}})]]

---------------------------------------------------------------------------
\* syncstock.py: the pure steps of a run

\* slip: a default run resumes on the watermark day itself
pick_window_on_watermark(td, last_done, u) ==
    LET start == IF u # None THEN u[1]
                 ELSE IF last_done # None THEN last_done[1]
                 ELSE td - Lookback
    IN <<start, td + 1>>

pick_window(td, last_done, u) ==
    LET start == IF u # None THEN u[1]
                 ELSE IF last_done # None THEN last_done[1] + 1
                 ELSE td - Lookback
    IN <<start, td + 1>>

Truthy(id) == id # NullId /\ id # ""

fetch_daily(p, s) ==
    LET all_ids == {p[k].inventory_id : k \in {j \in DOMAIN p : Truthy(p[j].inventory_id)}}
                   \cup {s[k].inventory_id : k \in {j \in DOMAIN s : Truthy(s[j].inventory_id)}}
        valid_ids == all_ids \cap Catalog
        Valid(r) == r.inventory_id \in valid_ids
    IN IF all_ids # {}
       THEN <<SelectSeq(p, Valid), SelectSeq(s, Valid)>>
       ELSE <<p, s>>

Int0(raw) == IF raw = None THEN 0 ELSE raw[1]

RECURSIVE MergeP(_, _)
MergeP(by, p_rows) ==
    IF p_rows = <<>> THEN by
    ELSE LET r == Head(p_rows)
             key == <<r.day, Str(r.inventory_id)>>
             cur == IF key \in DOMAIN by THEN by[key] ELSE [p |-> 0, s |-> 0]
         IN MergeP((key :> [cur EXCEPT !.p = @ + Int0(r.purchased_qty)]) @@ by, Tail(p_rows))

\* slip: the sold quantity of a key is overwritten by each record, not accumulated
RECURSIVE MergeSLast(_, _)
MergeSLast(by, s_rows) ==
    IF s_rows = <<>> THEN by
    ELSE LET r == Head(s_rows)
             key == <<r.day, Str(r.inventory_id)>>
             cur == IF key \in DOMAIN by THEN by[key] ELSE [p |-> 0, s |-> 0]
         IN MergeSLast((key :> [cur EXCEPT !.s = Int0(r.sold_qty)]) @@ by, Tail(s_rows))

RECURSIVE MergeS(_, _)
MergeS(by, s_rows) ==
    IF s_rows = <<>> THEN by
    ELSE LET r == Head(s_rows)
             key == <<r.day, Str(r.inventory_id)>>
             cur == IF key \in DOMAIN by THEN by[key] ELSE [p |-> 0, s |-> 0]
         IN MergeS((key :> [cur EXCEPT !.s = @ + Int0(r.sold_qty)]) @@ by, Tail(s_rows))

merge_daily(p_rows, s_rows) ==
    LET by == MergeS(MergeP(EmptyFn, p_rows), s_rows)
    IN [by |-> by, items |-> SortIds({k[2] : k \in DOMAIN by})]

\* slip: the balance is taken from the item's most recent row before start
opening_balances_latest(led, start, items) ==
    IF items = <<>> THEN EmptyFn
    ELSE LET Earlier(i) == {k[1] : k \in {q \in DOMAIN led : q[2] = i /\ q[1] < start}}
             found == {i \in Range(items) : Earlier(i) # {}}
         IN [i \in found |->
               led[<<CHOOSE d \in Earlier(i) : \A e \in Earlier(i) : e <= d, i>>].on_hand_end]

\* sql_opening_on_hand_prev_day through opening_balances
opening_balances(led, start, items) ==
    IF items = <<>> THEN EmptyFn
    ELSE LET found == {i \in Range(items) : <<start - 1, i>> \in DOMAIN led}
         IN [i \in found |-> led[<<start - 1, i>>].on_hand_end]

\* by.get((day, iid), {}).get(col, 0)
Delta(by, day, iid) ==
    IF <<day, iid>> \in DOMAIN by THEN by[<<day, iid>>] ELSE [p |-> 0, s |-> 0]

\* slip: a balance below zero is stored as zero
RollDayClamped(day, items, by, st) ==
    LET raw == [i \in Range(items) |-> st.on_hand[i] + Delta(by, day, i).p - Delta(by, day, i).s]
        oh == [i \in Range(items) |-> IF raw[i] < 0 THEN 0 ELSE raw[i]]
    IN [on_hand |-> oh,
        rows |-> st.rows \o [k \in 1..Len(items) |->
                    <<day, items[k], Delta(by, day, items[k]).p, Delta(by, day, items[k]).s,
                      oh[items[k]]>>]]

\* slip: the day's sales are added to the balance
RollDayPlus(day, items, by, st) ==
    LET oh == [i \in Range(items) |-> st.on_hand[i] + Delta(by, day, i).p + Delta(by, day, i).s]
    IN [on_hand |-> oh,
        rows |-> st.rows \o [k \in 1..Len(items) |->
                    <<day, items[k], Delta(by, day, items[k]).p, Delta(by, day, items[k]).s,
                      oh[items[k]]>>]]

\* one pass of `for iid in items` on `day`, from the state st = [on_hand, rows]
\* the days before it left: on_hand[iid] = old_balance + p - s, then rows.append
RollDay(day, items, by, st) ==
    LET oh == [i \in Range(items) |-> st.on_hand[i] + Delta(by, day, i).p - Delta(by, day, i).s]
    IN [on_hand |-> oh,
        rows |-> st.rows \o [k \in 1..Len(items) |->
                    <<day, items[k], Delta(by, day, items[k]).p, Delta(by, day, items[k]).s,
                      oh[items[k]]>>]]

\* the state of the `while day < end` loop once it has passed `day`
RECURSIVE RollTo(_, _, _, _, _)
RollTo(start, day, items, by, opening) ==
    IF day < start
    THEN [on_hand |-> [i \in Range(items) |-> IF i \in DOMAIN opening THEN opening[i] ELSE 0],
          rows |-> <<>>]
    ELSE RollDay(day, items, by, RollTo(start, day - 1, items, by, opening))

\* slip: only the rows with movement are emitted
roll_forward_sparse(start, end, items, by, opening) ==
    LET Moved(r) == r[3] # 0 \/ r[4] # 0
    IN SelectSeq(RollTo(start, end - 1, items, by, opening).rows, Moved)

roll_forward(start, end, items, by, opening) ==
    RollTo(start, end - 1, items, by, opening).rows

---------------------------------------------------------------------------
\* query.py: the writers

RowKey(r) == <<r[1], r[2]>>

\* INSERT ... ON CONFLICT DO UPDATE refuses to touch one key twice in a statement
HasDupKeys(rs) == Cardinality({RowKey(rs[n]) : n \in DOMAIN rs}) # Len(rs)

\* slip: on conflict the quantities are added to the stored ones
sql_upsert_ledger_adding(led, rs) ==
    LET new == [k \in {RowKey(rs[n]) : n \in DOMAIN rs} |->
                  LET r == rs[CHOOSE n \in DOMAIN rs : RowKey(rs[n]) = k]
                  IN IF k \in DOMAIN led
                     THEN [purchased_qty |-> led[k].purchased_qty + r[3],
                           sold_qty |-> led[k].sold_qty + r[4],
                           on_hand_end |-> r[5]]
                     ELSE [purchased_qty |-> r[3], sold_qty |-> r[4], on_hand_end |-> r[5]]]
    IN new @@ led

sql_upsert_ledger(led, rs) ==
    LET new == [k \in {RowKey(rs[n]) : n \in DOMAIN rs} |->
                  LET r == rs[CHOOSE n \in DOMAIN rs : RowKey(rs[n]) = k]
                  IN [purchased_qty |-> r[3], sold_qty |-> r[4], on_hand_end |-> r[5]]]
    IN new @@ led

\* slip: the UPDATE sets the date and leaves run_status as it was
sql_advance_keeps_status(m, d) ==
    [m EXCEPT !.last_sales_day_done = Some(d)]

sql_advance_sales_day_watermark(m, d) ==
    [m EXCEPT !.last_sales_day_done = Some(d), !.run_status = "SUCCESS"]

LedgerDays(led) == {k[1] : k \in DOMAIN led}
MaxDay(led) == CHOOSE d \in LedgerDays(led) : \A e \in LedgerDays(led) : e <= d

\* slip: every item is refreshed from its own latest ledger row
sql_upsert_stock_from_item_latest(led, st) ==
    LET its == {k[2] : k \in DOMAIN led}
        lastOf(i) == CHOOSE d \in {k[1] : k \in {x \in DOMAIN led : x[2] = i}} :
                        \A k \in DOMAIN led : k[2] = i => k[1] <= d
    IN [i \in its |->
          [on_hand |-> led[<<lastOf(i), i>>].on_hand_end,
           version |-> IF i \in DOMAIN st THEN st[i].version + 1 ELSE 1]] @@ st

sql_upsert_stock_from_latest_day(led, st) ==
    IF DOMAIN led = {} THEN st
    ELSE LET last == MaxDay(led)
             its == {k[2] : k \in {x \in DOMAIN led : x[1] = last}}
         IN [i \in its |->
               [on_hand |-> led[<<last, i>>].on_hand_end,
                version |-> IF i \in DOMAIN st THEN st[i].version + 1 ELSE 1]] @@ st

---------------------------------------------------------------------------
\* The state after the schema is installed and before any run

Installed ==
    /\ today = Day0
    /\ purchases = {}
    /\ sales = {}
    /\ meta = [last_sales_day_done |-> None, run_status |-> "NONE"]
    /\ ledger = EmptyFn
    /\ stock = EmptyFn
    /\ holders = {}
    /\ pc = [p \in Procs |-> "idle"]
    /\ user = [p \in Procs |-> None]
    /\ win = [p \in Procs |-> None]
    /\ fetched = [p \in Procs |-> None]
    /\ rows = [p \in Procs |-> None]
    /\ outcome = [p \in Procs |-> "none"]
    /\ ncommits = 0
    /\ hist = [covered |-> {}, last |-> None, byUser |-> FALSE]

\* no pure step is called on its own
NoCall == [fn |-> "none"]

Init ==
    /\ Installed
    /\ call = NoCall
    /\ ret = None

---------------------------------------------------------------------------
\* The environment: the calendar and the source tables

PurchQtys == {Some(5)}
SaleQtys == {Some(2)}

\* A run reads the date once (pick_window) and each source table once (fetch_daily),
\* so a change of either while a run holds the lock has the effect of the same change
\* made before the run or after it: the environment moves between runs.
Quiet == holders = {}

\* A finished process exits before anything else moves: its outcome is seen in
\* exactly one state.
NoExitPending == \A p \in Procs : pc[p] # "done"

Tick ==
    /\ Quiet /\ NoExitPending
    /\ today < Day0 + MaxTick
    /\ today' = today + 1
    /\ hist' = [hist EXCEPT !.last = None]
    /\ UNCHANGED <<purchases, sales, meta, ledger, stock, holders, pc, user, win,
                   fetched, rows, outcome, ncommits>>
    /\ UNCHANGED <<call, ret>>

NRecs == Cardinality(purchases) + Cardinality(sales)

AddPurchase ==
    /\ Quiet /\ NoExitPending
    /\ NRecs < MaxRecs
    /\ \E d \in {today}, i \in PurchIds, q \in PurchQtys :
          LET l == [day |-> d, item |-> i, qty |-> q]
          IN l \notin purchases /\ purchases' = purchases \cup {l}
    /\ hist' = [hist EXCEPT !.last = None]
    /\ UNCHANGED <<today, sales, meta, ledger, stock, holders, pc, user, win,
                   fetched, rows, outcome, ncommits>>
    /\ UNCHANGED <<call, ret>>

AddSale ==
    /\ Quiet /\ NoExitPending
    /\ NRecs < MaxRecs
    /\ \E d \in {today}, i \in SaleIds, q \in SaleQtys, rf \in {FALSE} :
          LET l == [day |-> d, item |-> i, qty |-> q, refunded |-> rf]
          IN l \notin sales /\ sales' = sales \cup {l}
    /\ hist' = [hist EXCEPT !.last = None]
    /\ UNCHANGED <<today, purchases, meta, ledger, stock, holders, pc, user, win,
                   fetched, rows, outcome, ncommits>>
    /\ UNCHANGED <<call, ret>>

---------------------------------------------------------------------------
\* run_daily_rollup, one invocation per process and connection

\* slip: the lock is granted whoever holds it
TryLockAlways(h, p) == TRUE

\* pg_try_advisory_lock: granted unless another session holds the lock
TryLock(h, p) == h \ {p} = {}

\* what __main__ hands to run_daily_rollup
Payloads(p) ==
    IF p = "sched" THEN {None}
    ELSE {Some(d) : d \in (today - 1)..today}

\* An invocation that finds the lock held reads and writes nothing else, so it
\* commutes with every step of the holder: it is taken right after the lock step.
AtLockStep == \A q \in holders : pc[q] = "locked"

Invoke(p) ==
    /\ NoExitPending
    /\ AtLockStep
    /\ pc[p] = "idle"
    /\ \E u \in Payloads(p) :
          IF TryLock(holders, p)
          THEN /\ ncommits < MaxCommits
               /\ holders' = holders \cup {p}
               /\ pc' = [pc EXCEPT ![p] = "locked"]
               /\ user' = [user EXCEPT ![p] = u]
               /\ UNCHANGED outcome
          ELSE /\ pc' = [pc EXCEPT ![p] = "done"]
               /\ outcome' = [outcome EXCEPT ![p] = "skipped"]
               /\ UNCHANGED <<holders, user>>
    /\ UNCHANGED <<today, purchases, sales, meta, ledger, stock, win, fetched, rows,
                   ncommits, hist>>
    /\ UNCHANGED <<call, ret>>

\* slip: only start > end counts as no work
NoWorkStrict(w) == w[1] > w[2]

\* if start >= end: "No new data to process"
NoWork(w) == w[1] >= w[2]

PickWindow(p) ==
    /\ NoExitPending
    /\ pc[p] = "locked"
    /\ LET w == pick_window(today, meta.last_sales_day_done, user[p])
       IN /\ win' = [win EXCEPT ![p] = w]
          /\ IF NoWork(w)
             THEN /\ pc' = [pc EXCEPT ![p] = "finally"]
                  /\ outcome' = [outcome EXCEPT ![p] = "nowork"]
             ELSE /\ pc' = [pc EXCEPT ![p] = "picked"]
                  /\ UNCHANGED outcome
    /\ UNCHANGED <<today, purchases, sales, meta, ledger, stock, holders, user,
                   fetched, rows, ncommits, hist>>
    /\ UNCHANGED <<call, ret>>

\* fetch_daily, merge_daily, opening_balances, roll_forward: the reads of the run
Compute(p) ==
    /\ NoExitPending
    /\ pc[p] = "picked"
    /\ LET f == fetch_daily(sql_daily_purchases(purchases, win[p][1], win[p][2]),
                            sql_daily_sales(sales, win[p][1], win[p][2]))
           m == merge_daily(f[1], f[2])
           opening == opening_balances(ledger, win[p][1], m.items)
       IN /\ fetched' = [fetched EXCEPT ![p] = f]
          /\ rows' = [rows EXCEPT ![p] =
                        Some(roll_forward(win[p][1], win[p][2], m.items, m.by, opening))]
    /\ pc' = [pc EXCEPT ![p] = "computed"]
    /\ UNCHANGED <<today, purchases, sales, meta, ledger, stock, holders, user, win,
                   outcome, ncommits, hist>>
    /\ UNCHANGED <<call, ret>>

\* slip: the stock refresh is issued whether or not the run computed rows
StmtsAll(rs) == <<"upsert", "advance", "refresh">>

\* the statements between BEGIN and commit, in the order the run issues them
Stmts(rs) == IF rs # <<>> THEN <<"upsert", "advance", "refresh">> ELSE <<"advance">>

\* slip: the watermark is set to the day before the last day of the window
watermark_date_prev(start, end) == end - 2

\* slip: the watermark is set to the end of the window, a day not processed
watermark_date_end(start, end) == end

\* slip: the watermark is set to the first day of the window
watermark_date_first(start, end) == start

\* watermark_date = end - timedelta(days=1)
watermark_date(start, end) == end - 1

ExecStmt(t, stmt, rs, w) ==
    CASE stmt = "upsert" -> [t EXCEPT !.ledger = sql_upsert_ledger(@, rs)]
      [] stmt = "advance" ->
           [t EXCEPT !.meta = sql_advance_sales_day_watermark(@, watermark_date(w[1], w[2]))]
      [] stmt = "refresh" -> [t EXCEPT !.stock = sql_upsert_stock_from_latest_day(t.ledger, @)]

\* the transaction's uncommitted tables after the first n statements
RECURSIVE TxAfter(_, _, _, _)
TxAfter(t, n, rs, w) ==
    IF n = 0 THEN t ELSE ExecStmt(TxAfter(t, n - 1, rs, w), Stmts(rs)[n], rs, w)

Tables == [ledger |-> ledger, meta |-> meta, stock |-> stock]

\* slip: what the failed transaction wrote stays
RollbackKeeps(t) == t

\* conn.rollback(): the tables are the committed ones, whatever the transaction wrote
Rollback(t) == Tables

ClearLocals(p) ==
    /\ user' = [user EXCEPT ![p] = None]
    /\ win' = [win EXCEPT ![p] = None]
    /\ fetched' = [fetched EXCEPT ![p] = None]
    /\ rows' = [rows EXCEPT ![p] = None]

Install(t) == ledger' = t.ledger /\ meta' = t.meta /\ stock' = t.stock

\* the maximal intervals of processed days once window w has been committed too
Cover(ivs, w) ==
    LET joined == {iv \in ivs : iv[1] <= w[2] /\ w[1] <= iv[2]}
        lo == IF \E iv \in joined : iv[1] < w[1]
              THEN CHOOSE d \in {iv[1] : iv \in joined} : \A iv \in joined : d <= iv[1]
              ELSE w[1]
        hi == IF \E iv \in joined : iv[2] > w[2]
              THEN CHOOSE d \in {iv[2] : iv \in joined} : \A iv \in joined : d >= iv[2]
              ELSE w[2]
    IN (ivs \ joined) \cup {<<lo, hi>>}

\* BEGIN; every statement succeeds; conn.commit()
WriteCommit(p) ==
    /\ NoExitPending
    /\ pc[p] = "computed"
    /\ ~HasDupKeys(rows[p][1])
    /\ Install(TxAfter(Tables, Len(Stmts(rows[p][1])), rows[p][1], win[p]))
    /\ outcome' = [outcome EXCEPT ![p] = "success"]
    /\ pc' = [pc EXCEPT ![p] = "finally"]
    /\ hist' = [covered |-> Cover(hist.covered, win[p]),
                last |-> Some(win[p]),
                byUser |-> hist.byUser \/ user[p] # None]
    /\ ncommits' = ncommits + 1
    /\ UNCHANGED <<today, purchases, sales, holders, user, win, fetched, rows>>
    /\ UNCHANGED <<call, ret>>

\* BEGIN; statement n+1 of the write phase (or the commit) raises; rollback; raise
WriteFail(p) ==
    /\ NoExitPending
    /\ pc[p] = "computed"
    /\ \E n \in 0..Len(Stmts(rows[p][1])) :
          /\ HasDupKeys(rows[p][1]) => n = 0
          /\ Install(Rollback(TxAfter(Tables, n, rows[p][1], win[p])))
    /\ outcome' = [outcome EXCEPT ![p] = "error"]
    /\ pc' = [pc EXCEPT ![p] = "finally"]
    /\ UNCHANGED <<today, purchases, sales, holders, user, win, fetched, rows, ncommits, hist>>
    /\ UNCHANGED <<call, ret>>

\* a statement before BEGIN raises (pick_window, fetch_daily, opening_balances);
\* nothing reads the run's locals after that
PreFail(p) ==
    /\ NoExitPending
    /\ pc[p] \in {"locked", "picked"}
    /\ outcome' = [outcome EXCEPT ![p] = "error"]
    /\ pc' = [pc EXCEPT ![p] = "finally"]
    /\ ClearLocals(p)
    /\ UNCHANGED <<today, purchases, sales, meta, ledger, stock, holders, ncommits, hist>>
    /\ UNCHANGED <<call, ret>>

\* slip: the lock is released at the end of the try block, not in finally, and the
\* session outlives the run
pg_advisory_unlock_on_return(h, p) == IF outcome[p] = "error" THEN h ELSE h \ {p}

\* finally: pg_advisory_unlock; should the statement fail (the transaction of a
\* statement that raised is aborted), leaving conn_cursor closes the connection and
\* the session-level lock goes with the session
pg_advisory_unlock(h, p) == h \ {p}

Finally(p) ==
    /\ NoExitPending
    /\ pc[p] = "finally"
    /\ holders' = pg_advisory_unlock(holders, p)
    /\ pc' = [pc EXCEPT ![p] = "done"]
    /\ ClearLocals(p)
    /\ UNCHANGED <<today, purchases, sales, meta, ledger, stock, outcome, ncommits, hist>>
    /\ UNCHANGED <<call, ret>>

\* run p is between taking the lock and releasing it
InRun(p) == pc[p] \in {"locked", "picked", "computed", "finally"}

\* subprocess.run(cmd, timeout=300) of the webhook: when the wait expires the
\* child process is killed and TimeoutExpired is raised in the webhook. The
\* killed run's session ends: its uncommitted transaction is discarded and its
\* session-level lock is gone.
Timeout(p) ==
    /\ NoExitPending
    /\ p = "hook"
    /\ InRun(p)
    /\ holders' = holders \ {p}
    /\ pc' = [pc EXCEPT ![p] = "done"]
    /\ outcome' = [outcome EXCEPT ![p] = "timeout"]
    /\ ClearLocals(p)
    /\ UNCHANGED <<today, purchases, sales, meta, ledger, stock, ncommits, hist>>
    /\ UNCHANGED <<call, ret>>

\* the process ends; a later invocation is a fresh process
Exit(p) ==
    /\ pc[p] = "done"
    /\ pc' = [pc EXCEPT ![p] = "idle"]
    /\ outcome' = [outcome EXCEPT ![p] = "none"]
    /\ UNCHANGED <<today, purchases, sales, meta, ledger, stock, holders, user, win,
                   fetched, rows, ncommits, hist>>
    /\ UNCHANGED <<call, ret>>

\* the exit status of `python syncstock.py`: 1 when an exception leaves __main__,
\* 0 when run_daily_rollup returns
exit_status(o) == IF o = "error" THEN 1 ELSE 0

\* the response of trigger_sync to the exit status of the subprocess
trigger_sync(returncode) ==
    IF returncode = 0 THEN [code |-> 200, status |-> "success"]
    ELSE [code |-> 500, status |-> "error"]

\* the response of trigger_sync when the wait for the subprocess expired
trigger_sync_timeout == [code |-> 408, status |-> "error"]

Next ==
    \/ Tick
    \/ AddPurchase
    \/ AddSale
    \/ \E p \in Procs : Invoke(p)
    \/ \E p \in Procs : PickWindow(p)
    \/ \E p \in Procs : Compute(p)
    \/ \E p \in Procs : WriteCommit(p)
    \/ \E p \in Procs : WriteFail(p)
    \/ \E p \in Procs : PreFail(p)
    \/ \E p \in Procs : Finally(p)
    \/ \E p \in Procs : Timeout(p)
    \/ \E p \in Procs : Exit(p)

Spec == Init /\ [][Next]_vars

---------------------------------------------------------------------------
\* parse_webhook_payload. A text (Python str) is a sequence of one-character
\* strings.

Digit == "0" :> 0 @@ "1" :> 1 @@ "2" :> 2 @@ "3" :> 3 @@ "4" :> 4 @@
         "5" :> 5 @@ "6" :> 6 @@ "7" :> 7 @@ "8" :> 8 @@ "9" :> 9
IsDigit(c) == c \in DOMAIN Digit
Whitespace == {" ", "\t", "\n", "\r"}

\* str.strip()
RECURSIVE lstrip(_)
lstrip(cs) == IF cs # <<>> /\ Head(cs) \in Whitespace THEN lstrip(Tail(cs)) ELSE cs
RECURSIVE rstrip(_)
rstrip(cs) ==
    IF cs # <<>> /\ cs[Len(cs)] \in Whitespace THEN rstrip(SubSeq(cs, 1, Len(cs) - 1)) ELSE cs
strip(cs) == rstrip(lstrip(cs))

\* int() of a run of decimal digits
RECURSIVE Num(_)
Num(cs) == IF cs = <<>> THEN 0 ELSE Num(SubSeq(cs, 1, Len(cs) - 1)) * 10 + Digit[cs[Len(cs)]]

\* a failed parse (json.JSONDecodeError, ValueError of fromisoformat)
Fail == [ok |-> FALSE]

\* date.fromisoformat on a text that is YYYY-MM-DD or no ISO 8601 date at all:
\* the ordinal of the date, or ValueError
fromisoformat(cs) ==
    IF /\ Len(cs) = 10
       /\ cs[5] = "-" /\ cs[8] = "-"
       /\ \A k \in {1, 2, 3, 4, 6, 7, 9, 10} : IsDigit(cs[k])
    THEN LET y == Num(SubSeq(cs, 1, 4))
             m == Num(SubSeq(cs, 6, 7))
             d == Num(SubSeq(cs, 9, 10))
         IN IF y >= 1 /\ m \in 1..12 /\ d >= 1 /\ d <= DaysInMonth(y, m)
            THEN [ok |-> TRUE, v |-> Ordinal(y, m, d)]
            ELSE Fail
    ELSE Fail

\* The values json.loads returns: None, str, int, bool, dict
JNull == [t |-> "null"]
JStr(cs) == [t |-> "str", s |-> cs]
JInt(n) == [t |-> "int", n |-> n]
JBool(b) == [t |-> "bool", b |-> b]
JObj(m) == [t |-> "obj", m |-> m]

RECURSIVE SkipWs(_, _)
SkipWs(cs, i) == IF i <= Len(cs) /\ cs[i] \in Whitespace THEN SkipWs(cs, i + 1) ELSE i

HasAt(cs, i, lit) == i + Len(lit) - 1 <= Len(cs) /\ SubSeq(cs, i, i + Len(lit) - 1) = lit

\* a JSON string without escapes, from its opening quote at i
ScanString(cs, i) ==
    LET ends == {j \in (i + 1)..Len(cs) : cs[j] = "\""}
    IN IF ends = {} THEN Fail
       ELSE LET j == CHOOSE e \in ends : \A k \in ends : e <= k
            IN [ok |-> TRUE, v |-> JStr(SubSeq(cs, i + 1, j - 1)), next |-> j + 1]

RECURSIVE DigitsEnd(_, _)
DigitsEnd(cs, i) == IF i <= Len(cs) /\ IsDigit(cs[i]) THEN DigitsEnd(cs, i + 1) ELSE i

\* a JSON integer -?(0|[1-9][0-9]*) at i
ScanNumber(cs, i) ==
    LET b == IF cs[i] = "-" THEN i + 1 ELSE i
        e == DigitsEnd(cs, b)
    IN IF e = b THEN Fail
       ELSE LET n == IF cs[b] = "0" THEN b + 1 ELSE e
                v == Num(SubSeq(cs, b, n - 1))
            IN [ok |-> TRUE, v |-> JInt(IF b > i THEN 0 - v ELSE v), next |-> n]

\* the JSON value at i, of the texts made of objects, strings, integers and
\* the literals null, true, false
RECURSIVE ScanValue(_, _)
RECURSIVE ScanMembers(_, _, _)
ScanValue(cs, i) ==
    IF i > Len(cs) THEN Fail
    ELSE IF cs[i] = "\"" THEN ScanString(cs, i)
    ELSE IF cs[i] = "{"
    THEN LET j == SkipWs(cs, i + 1)
         IN IF j <= Len(cs) /\ cs[j] = "}"
            THEN [ok |-> TRUE, v |-> JObj(EmptyFn), next |-> j + 1]
            ELSE ScanMembers(cs, j, EmptyFn)
    ELSE IF HasAt(cs, i, <<"n", "u", "l", "l">>)
    THEN [ok |-> TRUE, v |-> JNull, next |-> i + 4]
    ELSE IF HasAt(cs, i, <<"t", "r", "u", "e">>)
    THEN [ok |-> TRUE, v |-> JBool(TRUE), next |-> i + 4]
    ELSE IF HasAt(cs, i, <<"f", "a", "l", "s", "e">>)
    THEN [ok |-> TRUE, v |-> JBool(FALSE), next |-> i + 5]
    ELSE IF cs[i] = "-" \/ IsDigit(cs[i]) THEN ScanNumber(cs, i)
    ELSE Fail

\* the members of an object from the key at i; a repeated key keeps its last value
ScanMembers(cs, i, acc) ==
    IF i > Len(cs) \/ cs[i] # "\"" THEN Fail
    ELSE LET k == ScanString(cs, i)
         IN IF ~k.ok THEN Fail
            ELSE LET c == SkipWs(cs, k.next)
                 IN IF c > Len(cs) \/ cs[c] # ":" THEN Fail
                    ELSE LET v == ScanValue(cs, SkipWs(cs, c + 1))
                         IN IF ~v.ok THEN Fail
                            ELSE LET m == (k.v.s :> v.v) @@ acc
                                     e == SkipWs(cs, v.next)
                                 IN IF e > Len(cs) THEN Fail
                                    ELSE IF cs[e] = "}"
                                    THEN [ok |-> TRUE, v |-> JObj(m), next |-> e + 1]
                                    ELSE IF cs[e] = ","
                                    THEN ScanMembers(cs, SkipWs(cs, e + 1), m)
                                    ELSE Fail

\* json.loads(text): the value, or JSONDecodeError (also for data after the value)
json_loads(cs) ==
    LET v == ScanValue(cs, SkipWs(cs, 1))
    IN IF v.ok /\ SkipWs(cs, v.next) > Len(cs) THEN [ok |-> TRUE, v |-> v.v] ELSE Fail

\* the truth value of `if start_date_str:`
bool(v) ==
    CASE v.t = "null" -> FALSE
      [] v.t = "str" -> v.s # <<>>
      [] v.t = "int" -> v.n # 0
      [] v.t = "bool" -> v.b
      [] v.t = "obj" -> DOMAIN v.m # {}

\* How a call ends
Return(v) == [kind |-> "return", value |-> v]
Raise(exc) == [kind |-> "raise", exc |-> exc]

start_date == <<"s", "t", "a", "r", "t", "_", "d", "a", "t", "e">>

parse_webhook_payload(payload) ==
    IF payload = <<>> \/ strip(payload) = <<>> THEN Return(None)
    ELSE LET data == json_loads(payload)
         IN IF data.ok /\ data.v.t = "obj" /\ start_date \in DOMAIN data.v.m
            THEN LET start_date_str == data.v.m[start_date]
                 IN IF bool(start_date_str)
                    THEN IF start_date_str.t # "str" THEN Raise("TypeError")
                         ELSE LET parsed_date == fromisoformat(start_date_str.s)
                              IN IF parsed_date.ok THEN Return(Some(parsed_date.v))
                                 ELSE Raise("ValueError")
                    ELSE Return(None)
            ELSE LET parsed_date == fromisoformat(strip(payload))
                 IN IF parsed_date.ok THEN Return(Some(parsed_date.v))
                    ELSE Return(None)

---------------------------------------------------------------------------
\* The pure steps called on their own, on arguments drawn from bounded sets

MaxRows == 2      \* records in each input sequence of merge_daily
MaxDays == 2      \* days of the window handed to roll_forward

SeqsUpTo(S, n) == UNION {[1..k -> S] : k \in 0..n}

\* date.isoformat(): zero-padded decimal fields
DigitChar == <<"0", "1", "2", "3", "4", "5", "6", "7", "8", "9">>
Pow10(k) == IF k = 0 THEN 1 ELSE IF k = 1 THEN 10 ELSE IF k = 2 THEN 100 ELSE 1000
Fmt(n, w) == [k \in 1..w |-> DigitChar[((n \div Pow10(w - k)) % 10) + 1]]
isoformat(y, m, d) == Fmt(y, 4) \o <<"-">> \o Fmt(m, 2) \o <<"-">> \o Fmt(d, 2)

\* Payload texts of the webhook, each with the date it carries (None when it
\* carries none): year-month-day fields that are dates or are not, a word, and
\* the ways of wrapping them
Fields == {<<2025, 3, 9>>, <<2024, 2, 29>>, <<2025, 2, 30>>, <<2025, 13, 1>>}
IsDate(f) == f[2] \in 1..12 /\ f[3] \in 1..DaysInMonth(f[1], f[2])
Inner == {[text |-> isoformat(f[1], f[2], f[3]),
           carries |-> IF IsDate(f) THEN Some(Ordinal(f[1], f[2], f[3])) ELSE None] :
             f \in Fields}
         \cup {[text |-> <<"s", "o", "o", "n">>, carries |-> None]}
Quoted(cs) == <<"\"">> \o cs \o <<"\"">>
Member(key, sep, val) == <<"{">> \o Quoted(key) \o sep \o val \o <<"}">>
Separators == {<<":">>, <<":", " ">>}
PayloadCases ==
    \* empty and blank
    {[text |-> <<>>, carries |-> None], [text |-> <<" ">>, carries |-> None]}
    \* a bare date string, with and without surrounding blanks
    \cup Inner
    \cup {[text |-> <<" ">> \o c.text \o <<"\n">>, carries |-> c.carries] : c \in Inner}
    \* {"start_date": "<text>"}, as json.dumps of the trigger writes it and compact
    \cup {[text |-> Member(start_date, sep, Quoted(c.text)), carries |-> c.carries] :
            c \in Inner, sep \in Separators}
    \* {"start_date": null}, and values that are no date string
    \cup {[text |-> Member(start_date, sep, v), carries |-> None] :
            sep \in Separators,
            v \in {<<"n", "u", "l", "l">>, <<"\"", "\"">>, <<"5">>, <<"0">>,
                   <<"t", "r", "u", "e">>, <<"{", "}">>}}
    \* JSON without a start_date member, and broken JSON
    \cup {[text |-> Member(<<"d", "a", "y">>, <<":">>, Quoted(c.text)), carries |-> None] :
            c \in Inner}
    \cup {[text |-> Quoted(c.text), carries |-> None] : c \in Inner}
    \cup {[text |-> <<"{">> \o Quoted(start_date) \o <<":">> \o Quoted(c.text),
           carries |-> None] : c \in Inner}
    \cup {[text |-> t, carries |-> None] :
            t \in {<<"{", "}">>, <<"n", "u", "l", "l">>, <<"5">>, <<"{">>}}

\* Records fetch_daily hands to merge_daily
PRows == [day : {Day0, Day0 + 1}, inventory_id : {"b", NullId}, purchased_qty : {None, Some(5)}]
SRows == [day : {Day0}, inventory_id : {"a", "b"}, sold_qty : {None, Some(2)}]

\* Item lists as merge_daily returns them, and one in another order
ItemLists == {<<>>, <<"a">>, <<"a", "b">>, <<"b", "a">>}

\* Ledgers with rows around the start of the window, each with its own balance
OnHandAt(d, i) == 10 * (d - Day0 + 3) + Rank(i)
Ledgers ==
    {[k \in K |-> [purchased_qty |-> 0, sold_qty |-> 0, on_hand_end |-> OnHandAt(k[1], k[2])]] :
        K \in SUBSET (((Day0 - 2)..Day0) \X {"a", "b"})}

\* Merged maps over the days of the longest window, and opening maps
Deltas == {[p |-> 5, s |-> 2], [p |-> 0, s |-> 7]}
DeltaMaps ==
    UNION {[K -> Deltas] : K \in SUBSET ((Day0..(Day0 + MaxDays - 1)) \X {"a", "b"})}
OpeningAt == "a" :> 10 @@ "b" :> (0 - 3)
OpeningMaps == {[i \in S |-> OpeningAt[i]] : S \in SUBSET {"a", "b"}}

\* one call, of any of the four functions, on any of their arguments
FnInit ==
    /\ Installed
    /\ ret = None
    /\ \/ \E c \in PayloadCases :
             call = [fn |-> "parse_webhook_payload", payload |-> c.text]
       \/ \E p \in SeqsUpTo(PRows, MaxRows), r \in SeqsUpTo(SRows, MaxRows) :
             call = [fn |-> "merge_daily", p_rows |-> p, s_rows |-> r]
       \/ \E l \in Ledgers, d \in {Day0, Day0 + 1}, it \in ItemLists :
             call = [fn |-> "opening_balances", led |-> l, start |-> d, items |-> it]
       \/ \E e \in Day0..(Day0 + MaxDays), it \in ItemLists, b \in DeltaMaps,
             o \in OpeningMaps :
             call = [fn |-> "roll_forward", start |-> Day0, end |-> e, items |-> it,
                     by |-> b, opening |-> o]

Idle == UNCHANGED <<today, purchases, sales, meta, ledger, stock, holders, pc, user, win,
                    fetched, rows, outcome, ncommits, hist, call>>

Call_parse_webhook_payload ==
    /\ call.fn = "parse_webhook_payload" /\ ret = None
    /\ ret' = Some(parse_webhook_payload(call.payload))
    /\ Idle

Call_merge_daily ==
    /\ call.fn = "merge_daily" /\ ret = None
    /\ ret' = Some(Return(merge_daily(call.p_rows, call.s_rows)))
    /\ Idle

\* opening.get(iid, 0) of roll_forward
opening_get(opening, iid) == IF iid \in DOMAIN opening THEN opening[iid] ELSE 0

\* the statements opening_balances executes on the cursor
opening_queries(start, items) ==
    IF items = <<>> THEN <<>>
    ELSE <<[sql |-> "sql_opening_on_hand_prev_day", params |-> <<start, items>>]>>

Call_opening_balances ==
    /\ call.fn = "opening_balances" /\ ret = None
    /\ ret' = Some(Return([balances |-> opening_balances(call.led, call.start, call.items),
                           executed |-> opening_queries(call.start, call.items)]))
    /\ Idle

Call_roll_forward ==
    /\ call.fn = "roll_forward" /\ ret = None
    /\ ret' = Some(Return(roll_forward(call.start, call.end, call.items, call.by,
                                       call.opening)))
    /\ Idle

FnNext ==
    \/ Call_parse_webhook_payload
    \/ Call_merge_daily
    \/ Call_opening_balances
    \/ Call_roll_forward

FnSpec == FnInit /\ [][FnNext]_vars

---------------------------------------------------------------------------
\* Properties

\* the days inside the window of some committed run
Processed(d) == \E iv \in hist.covered : iv[1] <= d /\ d < iv[2]
ProcessedDays == UNION {iv[1]..(iv[2] - 1) : iv \in hist.covered}

WM == meta.last_sales_day_done
TablesUnchanged == ledger' = ledger /\ meta' = meta /\ stock' = stock

\* C1: of two overlapping invocations at most one holds the run lock at any moment
\* and only a holder works; the invocation that finds the lock taken returns at once
\* as skipped, and its step changes neither ledger, watermark nor stock snapshot.
C1_MutualExclusion ==
    [][ /\ Cardinality(holders') <= 1
        /\ \A p \in Procs : InRun(p)' => p \in holders'
        /\ \A p \in Procs :
              (pc[p] = "idle" /\ pc'[p] # "idle" /\ holders \ {p} # {})
              => /\ pc'[p] = "done"
                 /\ outcome'[p] = "skipped"
                 /\ holders' = holders
                 /\ TablesUnchanged ]_vars

\* one invocation holds the lock while the other has been turned away
C1_Witness ==
    \E p, q \in Procs : p # q /\ p \in holders /\ pc[q] = "done" /\ outcome[q] = "skipped"

\* C2: the persisted watermark never takes a value earlier than one it held, and
\* once set is never unset, over default and caller-dated runs, empty and non-empty
\* row sets, committed and failed runs.
C2_WatermarkMonotone ==
    [][ WM # None => (WM' # None /\ WM'[1] >= WM[1]) ]_vars

\* the watermark was set by the first default run on Day0 and has since advanced,
\* after a run with a caller-supplied date committed too
C2_Witness ==
    /\ Processed(Day0 - Lookback)
    /\ hist.byUser
    /\ WM = Some(Day0 + 2)

\* the balance the ledger holds for the day before key k, 0 when it holds no such row
PrevOnHand(k) ==
    IF <<k[1] - 1, k[2]>> \in DOMAIN ledger THEN ledger[<<k[1] - 1, k[2]>>].on_hand_end ELSE 0

\* C3: every persisted ledger row (day, item) has on_hand_end(day) =
\* on_hand_end(day-1) + purchased_qty(day) - sold_qty(day), with on_hand_end(day-1)
\* taken as 0 when the ledger has no row for the item on day-1: the ledger starts
\* empty, and every step that changes it leaves all its rows so.
C3_LedgerContinuity ==
    [][ ledger' # ledger =>
          \A k \in DOMAIN ledger' :
              ledger'[k].on_hand_end =
                  PrevOnHand(k)' + ledger'[k].purchased_qty - ledger'[k].sold_qty ]_vars

\* a run with a caller-supplied date has committed, and the ledger holds a row with
\* movement on a day whose previous day carries a non-zero balance
C3_Witness ==
    /\ hist.byUser
    /\ \E k \in DOMAIN ledger :
          /\ PrevOnHand(k) # 0
          /\ ledger[k].purchased_qty + ledger[k].sold_qty # 0

\* C4: a run whose write phase raises leaves ledger, watermark and stock snapshot as
\* they were and ends as an error, which stays its outcome until the process exits
\* (or is killed by the webhook's timeout before it has exited); tables change only
\* in a step that ends the write phase in success.
C4_RollbackOnError ==
    [][ \A p \in Procs :
          /\ (pc[p] = "computed" /\ outcome'[p] = "error") => TablesUnchanged
          /\ (pc[p] = "computed" /\ ~TablesUnchanged) => outcome'[p] = "success"
          /\ (outcome[p] = "error" /\ pc'[p] # "idle") =>
                outcome'[p] \in {"error", "timeout"} ]_vars

\* a run with rows to write failed in its write phase
C4_Witness ==
    \E p \in Procs :
        /\ pc[p] = "finally"
        /\ outcome[p] = "error"
        /\ rows[p] # None
        /\ rows[p][1] # <<>>

\* the step in which run p commits the window of the committed run before it, the
\* date and the source tables being as that run found them
RepeatCommit(p) ==
    /\ pc[p] = "computed"
    /\ outcome'[p] = "success"
    /\ hist.last = Some(win[p])

\* C5 as claimed: the second of two successive committed runs over the same window
\* and the same source data leaves ledger, watermark and every field of every stock
\* snapshot entry (on_hand and version) as the first left them.
C5_IdempotentAllFields ==
    [][ \A p \in Procs : RepeatCommit(p) => TablesUnchanged ]_vars

\* C5 amended: the second run leaves the ledger rows, the watermark record and the
\* items and on_hand of the stock snapshot as the first left them; the version of
\* every entry it refreshes (the items of the latest ledger day) grows by one.
C5_IdempotentButVersion ==
    [][ \A p \in Procs : RepeatCommit(p) =>
          /\ ledger' = ledger
          /\ meta' = meta
          /\ DOMAIN stock' = DOMAIN stock
          /\ \A i \in DOMAIN stock :
                /\ stock'[i].on_hand = stock[i].on_hand
                /\ stock'[i].version =
                      IF rows[p][1] # <<>> /\ <<MaxDay(ledger), i>> \in DOMAIN ledger
                      THEN stock[i].version + 1 ELSE stock[i].version ]_vars

\* the same window over the same source tables, with rows to write, was committed
\* twice in succession
C5_Witness ==
    \E p \in Procs :
        /\ pc[p] = "finally"
        /\ outcome[p] = "success"
        /\ rows[p][1] # <<>>
        /\ hist.last = Some(win[p])
        /\ \E i \in DOMAIN stock : stock[i].version >= 2

Touched(p) == Range(merge_daily(fetched[p][1], fetched[p][2]).items)
WinDays(p) == win[p][1]..(win[p][2] - 1)

\* C6: roll_forward emits one row for each day of the window and each touched item
\* and no two rows with the same (day, item); after the commit the ledger holds that
\* one row for each such pair, also where a row existed before.
C6_DenseGrid ==
    \A p \in Procs :
        /\ rows[p] # None =>
              /\ ~HasDupKeys(rows[p][1])
              /\ {RowKey(r) : r \in Range(rows[p][1])} = WinDays(p) \X Touched(p)
        /\ (pc[p] = "finally" /\ outcome[p] = "success") =>
              \A r \in Range(rows[p][1]) :
                  /\ RowKey(r) \in DOMAIN ledger
                  /\ ledger[RowKey(r)] =
                        [purchased_qty |-> r[3], sold_qty |-> r[4], on_hand_end |-> r[5]]

\* a run with a caller-supplied date committed rows over days the ledger already held,
\* among them a row without movement
C6_Witness ==
    \E p \in Procs :
        /\ pc[p] = "finally"
        /\ outcome[p] = "success"
        /\ user[p] # None
        /\ Processed(Day0 - Lookback)
        /\ \E r \in Range(rows[p][1]) : r[3] = 0 /\ r[4] = 0

\* C7 as claimed: while only default runs have committed, an item with a ledger row
\* on a processed day has a row on every later processed day, and a run that resolves
\* the opening balance of an item with ledger history finds its row dated start - 1.
C7_HistoryHasPriorRow ==
    ~hist.byUser =>
        /\ \A k \in DOMAIN ledger : \A d \in ProcessedDays :
              d > k[1] => <<d, k[2]>> \in DOMAIN ledger
        /\ \A p \in Procs :
              (pc[p] = "computed" /\ user[p] = None) =>
                 \A i \in Touched(p) :
                     (\E k \in DOMAIN ledger : k[2] = i /\ k[1] < win[p][1])
                     => <<win[p][1] - 1, i>> \in DOMAIN ledger

Least(S) == CHOOSE d \in S : \A e \in S : d <= e

\* C8 as claimed: when the watermark is W, every day from the earliest day ever
\* processed up to W lies in the window of some committed run.
C8_NoGapBelowWatermark ==
    (WM # None /\ hist.covered # {}) =>
        \A d \in Least(ProcessedDays)..WM[1] : Processed(d)

\* the window the claim gives for the date, the watermark and the caller's date
ClaimedWindow(td, wm, u) ==
    <<IF u # None THEN u[1] ELSE IF wm # None THEN wm[1] + 1 ELSE td - 30, td + 1>>

\* C9: pick_window returns end = server date + 1 and start = the caller's date when
\* given, else watermark + 1 when a watermark exists, else server date - 30 days;
\* no watermark on 2025-03-10 gives [2025-02-08, 2025-03-11), watermark 2025-03-10
\* on 2025-03-12 gives [2025-03-11, 2025-03-13).
C9_PickWindow ==
    [][ \A p \in Procs : (pc[p] = "locked" /\ win'[p] # None) =>
          /\ win'[p] = ClaimedWindow(today, WM, user[p])
          /\ (user[p] = None /\ WM = None /\ today = Ordinal(2025, 3, 10))
             => win'[p] = <<Ordinal(2025, 2, 8), Ordinal(2025, 3, 11)>>
          /\ (user[p] = None /\ WM = Some(Ordinal(2025, 3, 10)) /\ today = Ordinal(2025, 3, 12))
             => win'[p] = <<Ordinal(2025, 3, 11), Ordinal(2025, 3, 13)>> ]_vars

\* a default run picked its window on 2025-03-12 with the watermark at 2025-03-10
C9_Witness ==
    \E p \in Procs :
        /\ pc[p] = "picked"
        /\ user[p] = None
        /\ today = Ordinal(2025, 3, 12)
        /\ WM = Some(Ordinal(2025, 3, 10))
        /\ win[p] = <<Ordinal(2025, 3, 11), Ordinal(2025, 3, 13)>>

\* run p has picked a window of no days
ZeroWindow(p) == win[p] # None /\ win[p][1] >= win[p][2]

\* C10: a run whose window has start >= end fetches nothing, writes nothing to ledger,
\* watermark (date and status) and stock snapshot, returns without error, and
\* releases the lock it acquired.
C10_ZeroWindowNoWrites ==
    [][ \A p \in Procs :
          /\ (pc[p] = "locked" /\ ZeroWindow(p)') =>
                /\ pc'[p] = "finally"
                /\ outcome'[p] = "nowork"
                /\ fetched'[p] = None /\ rows'[p] = None
                /\ TablesUnchanged
          /\ (pc[p] = "finally" /\ ZeroWindow(p)) =>
                /\ TablesUnchanged
                /\ pc'[p] # pc[p] =>
                      (pc'[p] = "done" /\ outcome'[p] = "nowork" /\ p \notin holders') ]_vars

\* a run found no day to process, returned and no longer holds the lock
C10_Witness ==
    \E p \in Procs : pc[p] = "done" /\ outcome[p] = "nowork" /\ holders = {}

\* C11: the step that commits a run over [start, end) has start < end and leaves the
\* watermark at end - 1 and run_status SUCCESS, whether the run computed rows or
\* none; a first-ever run on server date T leaves the watermark at T, and scenario A
\* (no watermark, 2025-03-10) leaves it at 2025-03-10 after window
\* [2025-02-08, 2025-03-11).
C11_WatermarkAfterCommit ==
    [][ \A p \in Procs : (pc[p] = "computed" /\ outcome'[p] = "success") =>
          /\ win[p][1] < win[p][2]
          /\ WM' = Some(win[p][2] - 1)
          /\ meta'.run_status = "SUCCESS"
          /\ WM = None => WM' = Some(today)
          /\ (WM = None /\ user[p] = None /\ today = Ordinal(2025, 3, 10)) =>
                /\ win[p] = <<Ordinal(2025, 2, 8), Ordinal(2025, 3, 11)>>
                /\ WM' = Some(Ordinal(2025, 3, 10)) ]_vars

\* a run that computed no row committed after an earlier run had written rows
C11_Witness ==
    \E p \in Procs :
        /\ pc[p] = "finally"
        /\ outcome[p] = "success"
        /\ rows[p][1] = <<>>
        /\ DOMAIN ledger # {}
        /\ WM = Some(win[p][2] - 1)
        /\ meta.run_status = "SUCCESS"

\* C12: a run that acquired the lock holds it over every step up to and including
\* the one that commits or rolls back its transaction, tables change only under a
\* held lock, a run that has terminated (by commit, zero-day return, or an exception
\* before or inside the write phase) holds no lock, and when no run is under way
\* the lock can be acquired. A run killed by the webhook's timeout ends with its
\* session, which takes the uncommitted transaction and the lock with it.
C12_LockHeldUntilExit ==
    [][ /\ \A p \in Procs :
              /\ (p \in holders /\ pc[p] \in {"locked", "picked", "computed"})
                 => (p \in holders' \/ outcome'[p] = "timeout")
              /\ (pc[p] = "idle" /\ pc'[p] = "locked") => p \in holders'
              /\ pc'[p] \in {"done", "idle"} => p \notin holders'
              /\ (\A q \in Procs : pc'[q] \in {"done", "idle"}) => TryLock(holders', p)
        /\ ~TablesUnchanged =>
              \E p \in Procs : pc[p] = "computed" /\ p \in holders /\ p \in holders' ]_vars

\* a run that raised has terminated and the lock is free
C12_Witness ==
    \E p \in Procs : pc[p] = "done" /\ outcome[p] = "error" /\ holders = {}

\* C13: the step that commits a non-empty row set leaves, for every item with a
\* ledger row on the greatest ledger day, a snapshot entry with that row's
\* on_hand_end and the previous version + 1 (1 for a new entry), and leaves every
\* other item's entry (or absence) as it was; no step removes an entry or lowers a
\* version.
C13_StockRefresh ==
    [][ /\ \A p \in Procs :
              (pc[p] = "computed" /\ outcome'[p] = "success" /\ rows[p][1] # <<>>) =>
                 \A i \in DOMAIN stock \cup DOMAIN stock' \cup {k[2] : k \in DOMAIN ledger'} :
                     IF <<MaxDay(ledger'), i>> \in DOMAIN ledger'
                     THEN /\ i \in DOMAIN stock'
                          /\ stock'[i].on_hand = ledger'[<<MaxDay(ledger'), i>>].on_hand_end
                          /\ stock'[i].version =
                                IF i \in DOMAIN stock THEN stock[i].version + 1 ELSE 1
                     ELSE /\ i \in DOMAIN stock' <=> i \in DOMAIN stock
                          /\ i \in DOMAIN stock => stock'[i] = stock[i]
        /\ \A i \in DOMAIN stock :
              i \in DOMAIN stock' /\ stock'[i].version >= stock[i].version ]_vars

\* a run committed rows that gave one item a new snapshot entry while another item,
\* absent from the latest ledger day, kept the entry it had
C13_Witness ==
    \E p \in Procs :
        /\ pc[p] = "finally"
        /\ outcome[p] = "success"
        /\ rows[p][1] # <<>>
        /\ \E i, j \in DOMAIN stock :
              /\ <<MaxDay(ledger), i>> \notin DOMAIN ledger
              /\ <<MaxDay(ledger), j>> \in DOMAIN ledger
              /\ stock[j].on_hand = ledger[<<MaxDay(ledger), j>>].on_hand_end

\* C14 as claimed: every stock snapshot entry's item has a ledger row on the greatest
\* day present in the ledger, and the entry's on_hand is that row's on_hand_end.
C14_SnapshotFromLatestDay ==
    \A i \in DOMAIN stock :
        /\ <<MaxDay(ledger), i>> \in DOMAIN ledger
        /\ stock[i].on_hand = ledger[<<MaxDay(ledger), i>>].on_hand_end

\* C15 as claimed: every record fetch_daily returns, and so every ledger row, carries
\* an inventory ID of the master catalog.
C15_OnlyCatalogIds ==
    /\ \A p \in Procs : fetched[p] # None =>
          /\ \A n \in DOMAIN fetched[p][1] : fetched[p][1][n].inventory_id \in Catalog
          /\ \A n \in DOMAIN fetched[p][2] : fetched[p][2][n].inventory_id \in Catalog
    /\ \A k \in DOMAIN ledger : k[2] \in Catalog

\* C16 as claimed: what the caller observes of a finished run (the exit status, and
\* the webhook response made from it) differs between a skipped run, a successful
\* run and a failed run.
C16_OutcomesDistinct ==
    \A p \in Procs :
        (pc[p] = "done" /\ outcome[p] \in {"skipped", "success", "error"}) =>
            \A o \in {"skipped", "success", "error"} \ {outcome[p]} :
                /\ exit_status(outcome[p]) # exit_status(o)
                /\ trigger_sync(exit_status(outcome[p])) # trigger_sync(exit_status(o))

\* C17: parse_webhook_payload returns for every payload and never raises: the
\* date a bare ISO date or a JSON object with a valid ISO start_date carries,
\* and None for an empty payload, a null start_date and every malformed
\* payload, a JSON object whose start_date is no valid ISO date included.
C17_PayloadNeverRaises ==
    (call.fn = "parse_webhook_payload" /\ ret # None) =>
        \A c \in PayloadCases : c.text = call.payload => ret[1] = Return(c.carries)

\* the merged quantities of (d, i), zero when the map has no such key
Merged(by, d, i) == IF <<d, i>> \in DOMAIN by THEN by[<<d, i>>] ELSE [p |-> 0, s |-> 0]

\* the sum of purchased - sold of item i over the days start..d
RECURSIVE NetThrough(_, _, _, _)
NetThrough(by, start, d, i) ==
    IF d < start THEN 0
    ELSE NetThrough(by, start, d - 1, i) + Merged(by, d, i).p - Merged(by, d, i).s

\* C18: roll_forward emits, for each item and each day d of [start, end), exactly
\* the row (d, item, p, s, on_hand) with p and s the merged quantities of (d, item)
\* (0 when absent) and on_hand = opening(item) (0 when absent) plus the sum of
\* p - s over start..d, unclamped, and the days come in calendar order.
C18_RollForwardRows ==
    (call.fn = "roll_forward" /\ ret # None) =>
        LET out == ret[1].value
            days == call.start..(call.end - 1)
        IN /\ ret[1].kind = "return"
           /\ Len(out) = Cardinality(days) * Len(call.items)
           /\ \A d \in days, k \in DOMAIN call.items :
                 LET i == call.items[k]
                     o == IF i \in DOMAIN call.opening THEN call.opening[i] ELSE 0
                 IN <<d, i, Merged(call.by, d, i).p, Merged(call.by, d, i).s,
                      o + NetThrough(call.by, call.start, d, i)>> \in Range(out)
           /\ \A m, n \in DOMAIN out : m < n => out[m][1] <= out[n][1]

\* Scenario C (opening 10, purchased 5, sold 2 gives 13) in a window of more than
\* one day in which another balance is negative
C18_Witness ==
    /\ call.fn = "roll_forward" /\ ret # None
    /\ call.end > call.start + 1
    /\ <<Day0, "a", 5, 2, 13>> \in Range(ret[1].value)
    /\ \E r \in Range(ret[1].value) : r[5] < 0 /\ r[1] > Day0

\* the key of an input record, and a quantity with null counted as zero
KeyOf(r) == <<r.day, Str(r.inventory_id)>>
Qty0(q) == IF q = None THEN 0 ELSE q[1]

RECURSIVE SumSeq(_)
SumSeq(q) == IF q = <<>> THEN 0 ELSE Head(q) + SumSeq(Tail(q))

\* C19: merge_daily returns, without raising, a map whose keys are exactly the
\* (day, item) keys of the input records, each with purchased = the sum of
\* purchased_qty over the purchase records of the key and sold = the sum of
\* sold_qty over its sales records (null counting as 0), and the list of the
\* distinct item IDs of the records in sorted order.
C19_MergeDaily ==
    (call.fn = "merge_daily" /\ ret # None) =>
        LET out == ret[1].value
            P == call.p_rows
            S == call.s_rows
            keys == {KeyOf(P[n]) : n \in DOMAIN P} \cup {KeyOf(S[n]) : n \in DOMAIN S}
        IN /\ ret[1].kind = "return"
           /\ DOMAIN out.by = keys
           /\ \A k \in keys :
                 /\ out.by[k].p = SumSeq([n \in DOMAIN P |->
                        IF KeyOf(P[n]) = k THEN Qty0(P[n].purchased_qty) ELSE 0])
                 /\ out.by[k].s = SumSeq([n \in DOMAIN S |->
                        IF KeyOf(S[n]) = k THEN Qty0(S[n].sold_qty) ELSE 0])
           /\ Range(out.items) = {k[2] : k \in keys}
           /\ \A m, n \in DOMAIN out.items : m < n => Rank(out.items[m]) < Rank(out.items[n])

\* two sales records of one key, a purchase record of the same key met first and
\* one with a null quantity and another item, which sorts before it
C19_Witness ==
    /\ call.fn = "merge_daily" /\ ret # None
    /\ Len(call.p_rows) = 2 /\ Len(call.s_rows) = 2
    /\ call.p_rows[1].inventory_id = "b" /\ call.p_rows[2].purchased_qty = None
    /\ call.s_rows[1].inventory_id = "b" /\ call.s_rows[2].inventory_id = "b"
    /\ ret[1].value.by[<<Day0, "b">>] = [p |-> 5, s |-> 4]
    /\ ret[1].value.items = <<"None", "b">>

\* C20: the opening balance used for a touched item is the on_hand_end of the
\* item's ledger row dated exactly start - 1 when there is one and 0 otherwise,
\* whatever rows the item has on earlier days; with no touched item no ledger
\* lookup is made.
C20_OpeningFromPrevDay ==
    (call.fn = "opening_balances" /\ ret # None) =>
        LET out == ret[1].value
            prev == call.start - 1
        IN /\ ret[1].kind = "return"
           /\ \A i \in Range(call.items) :
                 opening_get(out.balances, i) =
                    IF <<prev, i>> \in DOMAIN call.led THEN call.led[<<prev, i>>].on_hand_end
                    ELSE 0
           /\ call.items = <<>> => out.executed = <<>>
           /\ call.items # <<>> => Len(out.executed) = 1

\* item a has rows two and three days before start and none on start - 1, item
\* b has a row on start - 1: a opens at 0, b at that row's balance
C20_Witness ==
    /\ call.fn = "opening_balances" /\ ret # None
    /\ call.start = Day0 + 1
    /\ call.items = <<"a", "b">>
    /\ DOMAIN call.led = {<<Day0 - 2, "a">>, <<Day0 - 1, "a">>, <<Day0, "b">>}
    /\ opening_get(ret[1].value.balances, "a") = 0
    /\ opening_get(ret[1].value.balances, "b") = OnHandAt(Day0, "b")

\* the step by which run p commits
Commits(p) == pc[p] = "computed" /\ pc'[p] = "finally" /\ outcome'[p] = "success"

\* C21: the commit of a run over a window with start < end that computed no row
\* changes the watermark only: the ledger and every stock entry, version included,
\* are as before.
C21_EmptyCommitOnlyWatermark ==
    [][ \A p \in Procs : (Commits(p) /\ rows[p] = Some(<<>>)) =>
          /\ win[p][1] < win[p][2]
          /\ ledger' = ledger
          /\ stock' = stock
          /\ WM' = Some(win[p][2] - 1) ]_vars

\* a run that computed no row has committed while the snapshot held entries, and
\* the watermark moved
C21_Witness ==
    \E p \in Procs :
        /\ pc[p] = "finally" /\ outcome[p] = "success"
        /\ rows[p] = Some(<<>>)
        /\ win[p][1] < win[p][2]
        /\ DOMAIN stock # {}
        /\ \A i \in DOMAIN stock : stock[i].version = 1
        /\ WM = Some(today) /\ today > Day0

\* the source's activity of item i on day d and its totals, as the daily queries
\* report them
HasActivity(d, i) ==
    \/ \E l \in purchases : l.day = d /\ l.item = i
    \/ \E l \in sales : l.day = d /\ l.item = i
SrcPurchased(d, i) ==
    LET rs == sql_daily_purchases(purchases, d, d + 1)
        hit == {k \in DOMAIN rs : rs[k].inventory_id = i}
    IN IF hit = {} THEN 0 ELSE Int0(rs[CHOOSE k \in hit : TRUE].purchased_qty)
SrcSold(d, i) ==
    LET rs == sql_daily_sales(sales, d, d + 1)
        hit == {k \in DOMAIN rs : rs[k].inventory_id = i}
    IN IF hit = {} THEN 0 ELSE Int0(rs[CHOOSE k \in hit : TRUE].sold_qty)

\* C22: once a default run has committed and the watermark is W, with default runs
\* only before it, every day d <= W of a committed window and every catalog item
\* with source activity on d has a ledger row (d, item) carrying the source's
\* purchased and sold totals of d, also when transactions dated on a watermark day
\* were recorded after the run that advanced the watermark to it.
C22_WatermarkDaysReconciled ==
    \A p \in Procs :
        (pc[p] = "finally" /\ outcome[p] = "success" /\ user[p] = None /\ ~hist.byUser) =>
            \A d \in ProcessedDays, i \in Catalog :
                (d <= WM[1] /\ HasActivity(d, i)) =>
                    /\ <<d, i>> \in DOMAIN ledger
                    /\ ledger[<<d, i>>].purchased_qty = SrcPurchased(d, i)
                    /\ ledger[<<d, i>>].sold_qty = SrcSold(d, i)

\* what the webhook answers for run p
Response(p) ==
    IF outcome[p] = "timeout" THEN trigger_sync_timeout
    ELSE trigger_sync(exit_status(outcome[p]))

\* C23: when the webhook's wait for its run expires, the webhook reports a
\* timeout and the run is as it was: at the same position, holding the lock,
\* with the window and the rows it computed, free to commit or roll back.
C23_TimeoutLeavesRun ==
    [][ \A p \in Procs : (outcome'[p] = "timeout" /\ outcome[p] # "timeout") =>
          /\ Response(p)'.code = 408
          /\ pc'[p] = pc[p]
          /\ (p \in holders) = (p \in holders')
          /\ win'[p] = win[p] /\ rows'[p] = rows[p] ]_vars

\* C24: while only default runs have committed, the window of each committed
\* default run starts where the window of the previous committed run ended, so
\* the committed windows are one interval without gap or overlap; a run that
\* fails or is skipped leaves the window the next default run picks unchanged.
C24_DefaultRunsTile ==
    [][ \A p \in Procs :
          /\ (Commits(p) /\ user[p] = None /\ ~hist.byUser /\ hist.covered # {}) =>
                \E iv \in hist.covered :
                    /\ hist.covered = {iv}
                    /\ win[p][1] = iv[2]
                    /\ hist'.covered = {<<iv[1], win[p][2]>>}
          /\ (outcome[p] = "none" /\ outcome'[p] \in {"error", "skipped"}) =>
                pick_window(today', WM', None) = pick_window(today, WM, None) ]_vars

\* the second of two committed default runs, two days after the first: its
\* window starts the day after the first run's day and the two windows are one
\* interval
C24_Witness ==
    \E p \in Procs :
        /\ pc[p] = "finally" /\ outcome[p] = "success" /\ user[p] = None
        /\ ~hist.byUser
        /\ win[p] = <<Day0 + 1, Day0 + 3>>
        /\ hist.covered = {<<Day0 - Lookback, Day0 + 3>>}

\* a run has committed on the current server date: its window ended at today + 1
CommittedToday == \E iv \in hist.covered : iv[2] = today + 1

\* C25: once a run has committed on server date T, a default run that picks its
\* window while the date is still T gets start >= end, goes straight to the
\* release of the lock with nothing to do, and writes nothing, whatever was
\* added to the sources in between.
C25_NoSecondRunSameDay ==
    [][ \A p \in Procs :
          /\ (/\ pc[p] = "locked" /\ user[p] = None /\ CommittedToday
              /\ pc'[p] # "locked" /\ outcome'[p] \notin {"error", "timeout"}) =>
                /\ win'[p][1] >= win'[p][2]
                /\ pc'[p] = "finally" /\ outcome'[p] = "nowork"
                /\ rows'[p] = None
                /\ TablesUnchanged
          /\ (outcome[p] = "nowork" /\ CommittedToday) => TablesUnchanged ]_vars

\* after a default run committed today a purchase dated today was recorded, and a
\* further default run found nothing to do: the ledger has no row for it
C25_Witness ==
    \E p \in Procs :
        /\ pc[p] = "finally" /\ outcome[p] = "nowork"
        /\ CommittedToday /\ ~hist.byUser
        /\ win[p] = <<today + 1, today + 1>>
        /\ \E l \in purchases : l.day = today /\ <<today, l.item>> \notin DOMAIN ledger

====
